---- MODULE Spec2Model ----
(***************************************************************************)
(* Window manager of the SentryOS desktop (WindowManager.tsx).             *)
(*                                                                         *)
(* The provider holds two pieces of React state: the registry `windows`    *)
(* (an array of window records, in insertion order) and the counter        *)
(* `topZIndex`.  Every operation enqueues functional updaters; an updater  *)
(* reads the committed state and returns the next one, so each operation   *)
(* is one atomic step over <<windows, topZIndex>>.                         *)
(***************************************************************************)
EXTENDS Integers, Sequences, FiniteSets, TLC

VARIABLES
    windows,      \* useState<WindowState[]>([])          WindowManager.tsx:31
    topZIndex,    \* useState(100)                        WindowManager.tsx:32
    lastOp,       \* history: the operation that produced this state
    beforeToggle  \* history: the registry before the maximizeWindow call that
                  \* produced this state (<<>> after any other operation)

\* Chat relay endpoint (POST handler of the /api/chat route).
VARIABLES
    request,      \* the body of the HTTP request being handled
    relayPc,      \* "received" | "rejected" | "streaming" | "closed"
    response,     \* the Response the handler returned
    prompt,       \* fullPrompt handed to query()
    upstream,     \* history: the agent messages the for-await loop consumed
    ending,       \* history: how the agent iteration finished
    written,      \* what controller.enqueue put on the stream, in order
    closeCount    \* number of controller.close() calls

\* Chat client (Chat component and its handleSubmit).
VARIABLES
    messages,     \* useState<Message[]>([welcome])
    input,        \* useState('')
    isLoading,    \* useState(false)
    currentTool,  \* useState<ToolStatus | null>(null)
    calls,        \* the handleSubmit invocations and their local variables
    nextId,       \* source of crypto.randomUUID() values
    chatEvent     \* history: the event handled last

wmVars == <<windows, topZIndex, lastOp, beforeToggle>>

chatVars ==
    <<messages, input, isLoading, currentTool, calls, nextId, chatEvent>>

relayVars ==
    <<request, relayPc, response, prompt, upstream, ending, written, closeCount>>

vars == <<wmVars, relayVars, chatVars>>

\* The relay is not part of the window manager's behaviours.
RelayOff ==
    /\ request = [json |-> "none"]
    /\ relayPc = "off"
    /\ response = [status |-> 0]
    /\ prompt = <<>>
    /\ upstream = <<>>
    /\ ending = "none"
    /\ written = <<>>
    /\ closeCount = 0

\* currentTool === null
Null == [t |-> "null"]

\* The Chat component is not mounted.
ChatOff ==
    /\ messages = <<>>
    /\ input = <<>>
    /\ isLoading = FALSE
    /\ currentTool = Null
    /\ calls = <<>>
    /\ nextId = 0
    /\ chatEvent = [ev |-> "none"]

(***************************************************************************)
(* Bounds and input sets                                                   *)
(***************************************************************************)
InitialZIndex == 100

\* The counter is unbounded in the program; the model stops bumping here.
MaxZ == 103

\* Ids the desktop opens windows with (Desktop.tsx:75, :97).
OpenIds == {"install-guide", "chat"}

\* Ids the operations are called with.  An id is unknown to the manager
\* whenever no window with it is in the registry (never opened, or closed).
Ids == OpenIds

\* The records Desktop.tsx passes, without id and flags (Desktop.tsx:74-87,
\* :96-109).
Templates ==
    { [title |-> "Install Guide.md", icon |-> "doc", x |-> 100, y |-> 50,
       width |-> 600, height |-> 500, minWidth |-> 400, minHeight |-> 300,
       content |-> "Notepad"],
      [title |-> "SentryOS Chat", icon |-> "chat", x |-> 200, y |-> 80,
       width |-> 500, height |-> 550, minWidth |-> 350, minHeight |-> 400,
       content |-> "Chat"] }

\* Values updateWindowPosition / updateWindowSize are called with.
Positions == { <<100, 50>>, <<200, 80>> }
Sizes     == { <<600, 500>>, <<500, 550>> }

\* Omit<WindowState, 'zIndex' | 'isFocused'>: what openWindow is called with.
OpenArgs ==
    { [id |-> i, title |-> t.title, icon |-> t.icon,
       x |-> t.x, y |-> t.y, width |-> t.width, height |-> t.height,
       minWidth |-> t.minWidth, minHeight |-> t.minHeight,
       isMinimized |-> mn, isMaximized |-> mx, content |-> t.content] :
      i \in OpenIds, t \in Templates, mn \in BOOLEAN, mx \in BOOLEAN }

NoArg == [none |-> TRUE]

(***************************************************************************)
(* Array helpers                                                           *)
(***************************************************************************)
\* prev.map(f)
Map(prev, f(_)) == [i \in 1..Len(prev) |-> f(prev[i])]

\* prev.find(w => w.id === id) !== undefined
Exists(prev, id) == \E i \in 1..Len(prev) : prev[i].id = id

(***************************************************************************)
(* The updaters passed to setWindows                                       *)
(***************************************************************************)
\* Variant: the counter is read but not advanced.
NextZStale(currentZ) == currentZ

\* currentZ + 1
NextZ(currentZ) == currentZ + 1

\* Variant: an existing record is overwritten by the record passed in.
openUpdaterOverwrites(prev, window, newZ) ==
    IF Exists(prev, window.id)
    THEN Map(prev, LAMBDA w :
            IF w.id = window.id
            THEN [zIndex |-> newZ, isFocused |-> TRUE] @@ window
            ELSE [w EXCEPT !.isFocused = FALSE])
    ELSE Append(Map(prev, LAMBDA w : [w EXCEPT !.isFocused = FALSE]),
                [zIndex |-> newZ, isFocused |-> TRUE] @@ window)

\* Variant: a new record is put in front of the registry and the records
\* already there keep their focused flag.
openUpdaterPrepends(prev, window, newZ) ==
    IF Exists(prev, window.id)
    THEN Map(prev, LAMBDA w :
            IF w.id = window.id
            THEN [w EXCEPT !.isMinimized = FALSE, !.isFocused = TRUE,
                           !.zIndex = newZ]
            ELSE [w EXCEPT !.isFocused = FALSE])
    ELSE <<[zIndex |-> newZ, isFocused |-> TRUE] @@ window>> \o prev

\* Variant: the lookup of an existing record is missing and open always adds.
openUpdaterAlwaysAppends(prev, window, newZ) ==
    Append(Map(prev, LAMBDA w : [w EXCEPT !.isFocused = FALSE]),
           [zIndex |-> newZ, isFocused |-> TRUE] @@ window)

openUpdater(prev, window, newZ) ==
    IF Exists(prev, window.id)
    THEN LET existing == prev[CHOOSE i \in 1..Len(prev) :
                                /\ prev[i].id = window.id
                                /\ \A j \in 1..(i-1) : prev[j].id # window.id]
         IN  IF existing.isMinimized
             THEN Map(prev, LAMBDA w :
                        IF w.id = window.id
                        THEN [w EXCEPT !.isMinimized = FALSE,
                                       !.isFocused = TRUE, !.zIndex = newZ]
                        ELSE [w EXCEPT !.isFocused = FALSE])
             ELSE Map(prev, LAMBDA w :
                        IF w.id = window.id
                        THEN [w EXCEPT !.isFocused = TRUE, !.zIndex = newZ]
                        ELSE [w EXCEPT !.isFocused = FALSE])
    ELSE Append(Map(prev, LAMBDA w : [w EXCEPT !.isFocused = FALSE]),
                [zIndex |-> newZ, isFocused |-> TRUE] @@ window)

\* Variant: the registry is cut at the closed window (splice without count).
closeUpdaterTruncates(prev, id) ==
    IF Exists(prev, id)
    THEN SubSeq(prev, 1, (CHOOSE i \in 1..Len(prev) :
                            /\ prev[i].id = id
                            /\ \A j \in 1..(i-1) : prev[j].id # id) - 1)
    ELSE SubSeq(prev, 1, Len(prev) - 1)

closeUpdater(prev, id) == SelectSeq(prev, LAMBDA w : w.id # id)

\* Variant: minimizing also takes the focus from every other window.
minimizeUpdaterUnfocusesAll(prev, id) ==
    Map(prev, LAMBDA w :
        IF w.id = id THEN [w EXCEPT !.isMinimized = TRUE, !.isFocused = FALSE]
        ELSE [w EXCEPT !.isFocused = FALSE])

\* Variant: the minimized window keeps its focused flag.
minimizeUpdaterKeepsFocus(prev, id) ==
    Map(prev, LAMBDA w :
        IF w.id = id THEN [w EXCEPT !.isMinimized = TRUE] ELSE w)

minimizeUpdater(prev, id) ==
    Map(prev, LAMBDA w :
        IF w.id = id THEN [w EXCEPT !.isMinimized = TRUE, !.isFocused = FALSE]
        ELSE w)

\* Variant: the flag is set instead of toggled.
maximizeUpdaterSets(prev, id) ==
    Map(prev, LAMBDA w :
        IF w.id = id THEN [w EXCEPT !.isMaximized = TRUE] ELSE w)

maximizeUpdater(prev, id) ==
    Map(prev, LAMBDA w :
        IF w.id = id THEN [w EXCEPT !.isMaximized = ~w.isMaximized] ELSE w)

\* Variant: the minimized flag is left as it was.
restoreUpdaterKeepsMinimized(prev, id, newZ) ==
    Map(prev, LAMBDA w :
        IF w.id = id THEN [w EXCEPT !.isFocused = TRUE, !.zIndex = newZ]
        ELSE [w EXCEPT !.isFocused = FALSE])

restoreUpdater(prev, id, newZ) ==
    Map(prev, LAMBDA w :
        IF w.id = id
        THEN [w EXCEPT !.isMinimized = FALSE, !.isFocused = TRUE,
                       !.zIndex = newZ]
        ELSE [w EXCEPT !.isFocused = FALSE])

\* Variant: the other windows keep their focused flag.
focusUpdaterKeepsOthers(prev, id, newZ) ==
    Map(prev, LAMBDA w :
        IF w.id = id THEN [w EXCEPT !.isFocused = TRUE, !.zIndex = newZ]
        ELSE w)

\* Variant: focusing also clears the minimized flag.
focusUpdaterClearsMinimized(prev, id, newZ) ==
    Map(prev, LAMBDA w :
        IF w.id = id
        THEN [w EXCEPT !.isMinimized = FALSE, !.isFocused = TRUE,
                       !.zIndex = newZ]
        ELSE [w EXCEPT !.isFocused = FALSE])

\* Variant: the id test guards only the focused flag; every window gets newZ.
focusUpdaterRaisesAll(prev, id, newZ) ==
    Map(prev, LAMBDA w :
        [w EXCEPT !.isFocused = (w.id = id), !.zIndex = newZ])

focusUpdater(prev, id, newZ) ==
    Map(prev, LAMBDA w :
        IF w.id = id THEN [w EXCEPT !.isFocused = TRUE, !.zIndex = newZ]
        ELSE [w EXCEPT !.isFocused = FALSE])

\* Variant: the id test is dropped and every window is moved.
positionUpdaterMovesAll(prev, id, x, y) ==
    Map(prev, LAMBDA w : [w EXCEPT !.x = x, !.y = y])

positionUpdater(prev, id, x, y) ==
    Map(prev, LAMBDA w : IF w.id = id THEN [w EXCEPT !.x = x, !.y = y] ELSE w)

sizeUpdater(prev, id, width, height) ==
    Map(prev, LAMBDA w :
        IF w.id = id THEN [w EXCEPT !.width = width, !.height = height] ELSE w)

(***************************************************************************)
(* Operations                                                              *)
(***************************************************************************)
Called(op, id, arg) ==
    lastOp' = [op |-> op, id |-> id, known |-> Exists(windows, id), arg |-> arg]

openWindow(window) ==
    /\ topZIndex < MaxZ
    /\ LET newZ == NextZ(topZIndex)
       IN  /\ windows' = openUpdater(windows, window, newZ)
           /\ topZIndex' = newZ
    /\ Called("open", window.id, window)
    /\ beforeToggle' = <<>>
    /\ UNCHANGED <<relayVars, chatVars>>

closeWindow(id) ==
    /\ windows' = closeUpdater(windows, id)
    /\ Called("close", id, NoArg)
    /\ beforeToggle' = <<>>
    /\ UNCHANGED topZIndex
    /\ UNCHANGED <<relayVars, chatVars>>

minimizeWindow(id) ==
    /\ windows' = minimizeUpdater(windows, id)
    /\ Called("minimize", id, NoArg)
    /\ beforeToggle' = <<>>
    /\ UNCHANGED topZIndex
    /\ UNCHANGED <<relayVars, chatVars>>

maximizeWindow(id) ==
    /\ windows' = maximizeUpdater(windows, id)
    /\ Called("maximize", id, NoArg)
    /\ beforeToggle' = windows
    /\ UNCHANGED topZIndex
    /\ UNCHANGED <<relayVars, chatVars>>

restoreWindow(id) ==
    /\ topZIndex < MaxZ
    /\ LET newZ == NextZ(topZIndex)
       IN  /\ windows' = restoreUpdater(windows, id, newZ)
           /\ topZIndex' = newZ
    /\ Called("restore", id, NoArg)
    /\ beforeToggle' = <<>>
    /\ UNCHANGED <<relayVars, chatVars>>

focusWindow(id) ==
    /\ topZIndex < MaxZ
    /\ LET newZ == NextZ(topZIndex)
       IN  /\ windows' = focusUpdater(windows, id, newZ)
           /\ topZIndex' = newZ
    /\ Called("focus", id, NoArg)
    /\ beforeToggle' = <<>>
    /\ UNCHANGED <<relayVars, chatVars>>

updateWindowPosition(id, x, y) ==
    /\ windows' = positionUpdater(windows, id, x, y)
    /\ Called("move", id, [x |-> x, y |-> y])
    /\ beforeToggle' = <<>>
    /\ UNCHANGED topZIndex
    /\ UNCHANGED <<relayVars, chatVars>>

updateWindowSize(id, width, height) ==
    /\ windows' = sizeUpdater(windows, id, width, height)
    /\ Called("resize", id, [width |-> width, height |-> height])
    /\ beforeToggle' = <<>>
    /\ UNCHANGED topZIndex
    /\ UNCHANGED <<relayVars, chatVars>>

Init ==
    /\ windows = <<>>
    /\ topZIndex = InitialZIndex
    /\ lastOp = [op |-> "init", id |-> "", known |-> FALSE, arg |-> NoArg]
    /\ beforeToggle = <<>>
    /\ RelayOff
    /\ ChatOff

Next ==
    \/ \E window \in OpenArgs : openWindow(window)
    \/ \E id \in Ids : closeWindow(id)
    \/ \E id \in Ids : minimizeWindow(id)
    \/ \E id \in Ids : maximizeWindow(id)
    \/ \E id \in Ids : restoreWindow(id)
    \/ \E id \in Ids : focusWindow(id)
    \/ \E id \in Ids, p \in Positions : updateWindowPosition(id, p[1], p[2])
    \/ \E id \in Ids, s \in Sizes : updateWindowSize(id, s[1], s[2])

Spec == Init /\ [][Next]_vars

(***************************************************************************)
(* Chat relay endpoint: POST                                               *)
(*                                                                         *)
(* Strings built by template literals are modelled as sequences of their   *)
(* parts; JSON values are records tagged with the kind of value.           *)
(***************************************************************************)
\* Longest message list in a request body.
MaxMessages == 3

\* Most agent messages one request consumes.
MaxUpstream == 3

\* const SYSTEM_PROMPT
SYSTEM_PROMPT == [part |-> "system"]

\* `\n\nPrevious conversation:\n`
ContextHeader == [part |-> "Previous conversation:"]

\* `${label}: ${content}`
Turn(label, content) == [part |-> "turn", label |-> label, content |-> content]

\* The i-th entry of a message list: a MessageInput or JSON null.  Contents
\* differ by position so that a turn of the prompt names its entry.
Entries(i) ==
    { [t |-> "msg", role |-> r, content |-> <<"m", i>>] :
        r \in {"user", "assistant"} } \cup { [t |-> "null"] }

MessageLists ==
    UNION { { l \in [1..n -> UNION {Entries(i) : i \in 1..n}] :
                \A i \in 1..n : l[i] \in Entries(i) } : n \in 0..MaxMessages }

\* Values of the `messages` property of a body that is a JSON object.
MessagesValues ==
    { [t |-> "undefined"], [t |-> "null"], [t |-> "string", v |-> "hello"],
      [t |-> "number", v |-> 0], [t |-> "object"] }
        \cup { [t |-> "array", items |-> l] : l \in MessageLists }

\* Request bodies: text that is not JSON, JSON null, a JSON string, and a
\* JSON object with or without a `messages` property.
Bodies ==
    { [json |-> "invalid"], [json |-> "null"], [json |-> "string"] }
        \cup { [json |-> "object", messages |-> v] : v \in MessagesValues }

\* !messages
Falsy(v) ==
    \/ v.t \in {"undefined", "null"}
    \/ v.t = "number" /\ v.v = 0
    \/ v.t = "string" /\ v.v = ""

\* Array.isArray(messages)
IsArray(v) == v.t = "array"

\* Variant: the last entry is taken whatever its role.
lastUserIndexAnyRole(items) == Len(items)

\* Position of messages.filter(m => m.role === 'user').pop(); 0 if undefined.
lastUserIndex(items) ==
    IF \E i \in 1..Len(items) : items[i].role = "user"
    THEN CHOOSE i \in 1..Len(items) :
            /\ items[i].role = "user"
            /\ \A j \in (i+1)..Len(items) : items[j].role # "user"
    ELSE 0

\* messages.slice(0, -1).map(m => `${...}: ${m.content}`)
conversationContext(items) ==
    [i \in 1..(Len(items) - 1) |->
        Turn(IF items[i].role = "user" THEN "User" ELSE "Assistant",
             items[i].content)]

fullPrompt(items) ==
    LET lastUserMessage == items[lastUserIndex(items)]
    IN  IF conversationContext(items) # <<>>
        THEN <<SYSTEM_PROMPT, ContextHeader>> \o conversationContext(items)
                \o <<Turn("User", lastUserMessage.content)>>
        ELSE <<SYSTEM_PROMPT, Turn("User", lastUserMessage.content)>>

JsonError(status, text) == [status |-> status, kind |-> "json", error |-> text]

EventStream == [status |-> 200, kind |-> "event-stream"]

\* The outcome of the handler up to `return new Response(...)`: a JSON
\* failure response, or "accept" with the prompt.
Handle(body) ==
    IF body.json = "invalid"
    THEN \* request.json() rejects: outer catch
         [do |-> "fail", response |->
            JsonError(500, "Failed to process chat request. Check server logs for details.")]
    ELSE IF body.json = "null"
    THEN \* destructuring null throws TypeError: outer catch
         [do |-> "fail", response |->
            JsonError(500, "Failed to process chat request. Check server logs for details.")]
    ELSE LET msgs == IF body.json = "object" THEN body.messages
                         ELSE [t |-> "undefined"]
         IN  IF Falsy(msgs) \/ ~IsArray(msgs)
             THEN [do |-> "fail", response |->
                     JsonError(400, "Messages array is required")]
             ELSE IF \E i \in 1..Len(msgs.items) : msgs.items[i].t = "null"
             THEN \* m.role on null throws TypeError inside filter: outer catch
                  [do |-> "fail", response |->
                     JsonError(500, "Failed to process chat request. Check server logs for details.")]
             ELSE IF lastUserIndex(msgs.items) = 0
             THEN [do |-> "fail", response |->
                     JsonError(400, "No user message found")]
             ELSE [do |-> "accept", response |-> EventStream,
                   prompt |-> fullPrompt(msgs.items)]

\* Lines of the event stream: `data: ${JSON.stringify(event)}\n\n`.
Data(event) == [line |-> "data", json |-> event]

\* 'data: [DONE]\n\n'
DONE == [line |-> "data: [DONE]"]

\* Messages the agent iteration yields.
TextDeltas ==
    { [type |-> "stream_event",
       event |-> [type |-> "content_block_delta",
                  delta |-> [type |-> "text_delta", text |-> t]]] :
      t \in {"a", "b"} }

OtherStreamEvents ==
    { [type |-> "stream_event",
       event |-> [type |-> "content_block_delta",
                  delta |-> [type |-> "input_json_delta"]]] }

AssistantMessages ==
    { [type |-> "assistant", content |-> c] :
      c \in { << [type |-> "text"] >>,
              << [type |-> "tool_use", name |-> "Read"], [type |-> "text"],
                 [type |-> "tool_use", name |-> "Bash"] >> } }

ToolProgress ==
    { [type |-> "tool_progress", tool_name |-> "Read",
       elapsed_time_seconds |-> 2] }

Results ==
    { [type |-> "result", subtype |-> st] :
      st \in {"success", "error_max_turns"} }

AgentMessages ==
    TextDeltas \cup OtherStreamEvents \cup AssistantMessages
        \cup ToolProgress \cup Results

\* for (const block of content) if (block.type === 'tool_use') enqueue(...)
RECURSIVE toolStarts(_)
toolStarts(content) ==
    IF content = <<>> THEN <<>>
    ELSE (IF Head(content).type = "tool_use"
          THEN << Data([type |-> "tool_start", tool |-> Head(content).name]) >>
          ELSE <<>>) \o toolStarts(Tail(content))

\* Variant: a failed result is reported and then also signalled as done.
resultEventsAlwaysDone(message) ==
    IF message.subtype = "success"
    THEN << Data([type |-> "done"]) >>
    ELSE << Data([type |-> "error",
                  message |-> "Query did not complete successfully"]),
            Data([type |-> "done"]) >>

\* The two `if (message.type === 'result' ...)` blocks.
resultEvents(message) ==
    (IF message.subtype = "success"
     THEN << Data([type |-> "done"]) >> ELSE <<>>)
    \o (IF message.subtype # "success"
        THEN << Data([type |-> "error",
                      message |-> "Query did not complete successfully"]) >>
        ELSE <<>>)

\* Variant: only the first tool_use block of an assistant message is
\* announced, and a progress message announces a tool as well.
translateFirstToolOnly(message) ==
    CASE message.type = "stream_event" ->
            IF message.event.type = "content_block_delta"
                 /\ message.event.delta.type = "text_delta"
            THEN << Data([type |-> "text_delta",
                          text |-> message.event.delta.text]) >>
            ELSE <<>>
      [] message.type = "assistant" ->
            IF toolStarts(message.content) = <<>> THEN <<>>
            ELSE << Head(toolStarts(message.content)) >>
      [] message.type = "tool_progress" ->
            << Data([type |-> "tool_start", tool |-> message.tool_name]) >>
      [] message.type = "result" -> resultEvents(message)
      [] OTHER -> <<>>

\* What one pass of the for-await body enqueues for `message`.
translate(message) ==
    CASE message.type = "stream_event" ->
            IF message.event.type = "content_block_delta"
                 /\ message.event.delta.type = "text_delta"
            THEN << Data([type |-> "text_delta",
                          text |-> message.event.delta.text]) >>
            ELSE <<>>
      [] message.type = "assistant" -> toolStarts(message.content)
      [] message.type = "tool_progress" ->
            << Data([type |-> "tool_progress", tool |-> message.tool_name,
                     elapsed |-> message.elapsed_time_seconds]) >>
      [] message.type = "result" -> resultEvents(message)
      [] OTHER -> <<>>

\* Variant: the stream is closed without the sentinel.
onUpstreamEndNoSentinel(out) == out

\* After the loop: controller.enqueue('data: [DONE]\n\n')
onUpstreamEnd(out) == Append(out, DONE)

\* In the catch block: an error event, and no sentinel.
onUpstreamThrow(out) ==
    Append(out, Data([type |-> "error", message |-> "Stream error occurred"]))

\* POST up to its return: validation, prompt, and the stream's start() up to
\* its first await.
POST ==
    /\ relayPc = "received"
    /\ LET h == Handle(request)
       IN  /\ response' = h.response
           /\ IF h.do = "accept"
              THEN relayPc' = "streaming" /\ prompt' = h.prompt
              ELSE relayPc' = "rejected" /\ UNCHANGED prompt
    /\ UNCHANGED <<request, upstream, ending, written, closeCount>>
    /\ UNCHANGED <<wmVars, chatVars>>

\* One iteration of `for await (const message of query(...))`.
RelayMessage(message) ==
    /\ relayPc = "streaming"
    /\ Len(upstream) < MaxUpstream
    /\ upstream' = Append(upstream, message)
    /\ written' = written \o translate(message)
    /\ UNCHANGED <<request, relayPc, response, prompt, ending, closeCount>>
    /\ UNCHANGED <<wmVars, chatVars>>

\* The iteration is exhausted: sentinel, close.
RelayEnd ==
    /\ relayPc = "streaming"
    /\ written' = onUpstreamEnd(written)
    /\ closeCount' = closeCount + 1
    /\ relayPc' = "closed"
    /\ ending' = "ended"
    /\ UNCHANGED <<request, response, prompt, upstream>>
    /\ UNCHANGED <<wmVars, chatVars>>

\* Variant: the catch block reports the error and returns without closing.
RelayThrowKeepsOpen ==
    /\ relayPc = "streaming"
    /\ written' = onUpstreamThrow(written)
    /\ relayPc' = "returned"
    /\ ending' = "threw"
    /\ UNCHANGED <<request, response, prompt, upstream, closeCount>>
    /\ UNCHANGED <<wmVars, chatVars>>

\* query() or the iteration throws: catch block.
RelayThrow ==
    /\ relayPc = "streaming"
    /\ written' = onUpstreamThrow(written)
    /\ closeCount' = closeCount + 1
    /\ relayPc' = "closed"
    /\ ending' = "threw"
    /\ UNCHANGED <<request, response, prompt, upstream>>
    /\ UNCHANGED <<wmVars, chatVars>>

WmOff ==
    /\ windows = <<>>
    /\ topZIndex = InitialZIndex
    /\ lastOp = [op |-> "init", id |-> "", known |-> FALSE, arg |-> NoArg]
    /\ beforeToggle = <<>>

RelayInit ==
    /\ request \in Bodies
    /\ relayPc = "received"
    /\ response = [status |-> 0]
    /\ prompt = <<>>
    /\ upstream = <<>>
    /\ ending = "none"
    /\ written = <<>>
    /\ closeCount = 0
    /\ WmOff
    /\ ChatOff

RelayNext ==
    \/ POST
    \/ \E message \in AgentMessages : RelayMessage(message)
    \/ RelayEnd
    \/ RelayThrow

SpecRelay == RelayInit /\ [][RelayNext]_vars

\* The handler runs once a request is received, and the agent iteration of an
\* accepted request eventually ends or throws.
SpecRelayFair ==
    /\ RelayInit /\ [][RelayNext]_vars
    /\ WF_vars(POST)
    /\ WF_vars(RelayEnd \/ RelayThrow)

(***************************************************************************)
(* Chat client: the Chat component and handleSubmit                        *)
(*                                                                         *)
(* Text is a sequence of pieces and string concatenation is \o.  A call of *)
(* handleSubmit runs from one await to the next in one step.               *)
(***************************************************************************)
\* Most submissions that start a request.
MaxSubmits == 2

\* Most chunks reader.read() delivers, over all requests.
MaxChunks == 2

\* id: 'welcome'
WelcomeId == 0

Welcome ==
    [id |-> WelcomeId, role |-> "assistant",
     content |-> <<"Hello! I'm the SentryOS AI Assistant. How can I help you today?">>]

\* What the user types into the textarea.
InputTexts == { <<" ">>, <<" ", "hi", " ">> }

\* streamingContent = '...' in the error branch
StreamErrorText == <<"Sorry, I encountered an error processing your request.">>

\* content of errorMessage in the catch block
CatchErrorText ==
    <<"Sorry, I encountered an error. Please check your Claude credentials are configured correctly.">>

\* The lines chunk.split('\n') yields: a `data: ` line with the JSON of an
\* event, the sentinel, a `data: ` line whose payload JSON.parse rejects, and
\* a line without the `data: ` prefix.
EventLines ==
    { [prefix |-> TRUE, parses |-> TRUE, json |-> e] :
      e \in { [type |-> "text_delta", text |-> <<"a">>],
              [type |-> "text_delta", text |-> <<"b">>],
              [type |-> "tool_start", tool |-> "Read"],
              [type |-> "tool_progress", tool |-> "Read", elapsed |-> 2],
              [type |-> "done"],
              [type |-> "error", message |-> "Stream error occurred"] } }

SentinelLine == [prefix |-> TRUE, parses |-> FALSE, data |-> "[DONE]"]

BrokenLine == [prefix |-> TRUE, parses |-> FALSE, data |-> "{\"type\":\"te"]

BlankLine == [prefix |-> FALSE]

\* The rest of the line `data: {"type":"text_delta","text":"a"}` when a chunk
\* boundary falls after `data: {"type":"te` (BrokenLine): it lacks the prefix.
TailLine == [prefix |-> FALSE, data |-> "xt_delta\",\"text\":\"a\"}"]

\* The text of the text_delta whose line BrokenLine and TailLine make up.
CutText == <<"a">>

Lines == EventLines \cup {SentinelLine, BrokenLine, BlankLine, TailLine}

\* What one reader.read() delivers, split into lines.
Chunks ==
    { <<l>> : l \in Lines } \cup
    { << [prefix |-> TRUE, parses |-> TRUE,
          json |-> [type |-> "text_delta", text |-> <<"a">>]],
         BlankLine,
         [prefix |-> TRUE, parses |-> TRUE,
          json |-> [type |-> "text_delta", text |-> <<"b">>]] >>,
      << [prefix |-> TRUE, parses |-> TRUE,
          json |-> [type |-> "error", message |-> "Stream error occurred"]],
         [prefix |-> TRUE, parses |-> TRUE,
          json |-> [type |-> "text_delta", text |-> <<"a">>]] >>,
      << BrokenLine,
         [prefix |-> TRUE, parses |-> TRUE,
          json |-> [type |-> "tool_start", tool |-> "Read"]],
         [prefix |-> TRUE, parses |-> TRUE,
          json |-> [type |-> "tool_progress", tool |-> "Read", elapsed |-> 2]] >> }

\* input.trim()
RECURSIVE trimStart(_)
trimStart(text) ==
    IF text # <<>> /\ Head(text) = " " THEN trimStart(Tail(text)) ELSE text

RECURSIVE trimEnd(_)
trimEnd(text) ==
    IF text # <<>> /\ text[Len(text)] = " "
    THEN trimEnd(SubSeq(text, 1, Len(text) - 1)) ELSE text

trim(text) == trimEnd(trimStart(text))

\* Variant: the id test is dropped and every message gets the content.
setContentRewritesAll(prev, id, content) ==
    [i \in 1..Len(prev) |-> [prev[i] EXCEPT !.content = content]]

\* prev.map(msg => msg.id === id ? { ...msg, content } : msg)
setContent(prev, id, content) ==
    [i \in 1..Len(prev) |->
        IF prev[i].id = id THEN [prev[i] EXCEPT !.content = content]
        ELSE prev[i]]

\* Variant: a text delta replaces what was streamed so far.
appendDeltaOverwrites(streamingContent, text) == text

\* streamingContent += parsed.text
appendDelta(streamingContent, text) == streamingContent \o text

\* Variant: the error string is appended to what was streamed so far.
errorContentAppends(streamingContent) == streamingContent \o StreamErrorText

\* streamingContent = 'Sorry, I encountered an error processing your request.'
errorContent(streamingContent) == StreamErrorText

\* Variant: a progress event shows the indicator when none is showing.
progressToolShows(prev, parsed) ==
    IF prev # Null THEN [elapsed |-> parsed.elapsed] @@ prev
    ELSE [t |-> "tool", name |-> parsed.tool, status |-> "running",
          elapsed |-> parsed.elapsed]

\* prev ? { ...prev, elapsed: parsed.elapsed } : null
progressTool(prev, parsed) ==
    IF prev # Null THEN [elapsed |-> parsed.elapsed] @@ prev ELSE Null

\* The body of `for (const line of lines)` for one line.  st holds the
\* handler's streamingContent and the component's messages and currentTool;
\* `deltas` and `failed` are history.
applyLine(st, id, ln) ==
    IF ~ln.prefix THEN st
    ELSE IF ~ln.parses THEN st    \* [DONE]: continue; otherwise: catch {}
    ELSE LET parsed == ln.json
         IN  CASE parsed.type = "text_delta" ->
                    LET content == appendDelta(st.streamingContent, parsed.text)
                    IN  [st EXCEPT !.streamingContent = content,
                                   !.currentTool = Null,
                                   !.messages = setContent(@, id, content),
                                   !.deltas = Append(@, parsed.text)]
               [] parsed.type = "tool_start" ->
                    [st EXCEPT !.currentTool =
                        [t |-> "tool", name |-> parsed.tool,
                         status |-> "running"]]
               [] parsed.type = "tool_progress" ->
                    [st EXCEPT !.currentTool = progressTool(@, parsed)]
               [] parsed.type = "done" -> [st EXCEPT !.currentTool = Null]
               [] parsed.type = "error" ->
                    [st EXCEPT !.streamingContent = errorContent(@),
                               !.messages =
                                   setContent(@, id,
                                              errorContent(st.streamingContent)),
                               !.currentTool = Null,
                               !.failed = TRUE]
               [] OTHER -> st

\* Variant: the try/catch encloses the loop, so a payload that fails to
\* parse ends the processing of the chunk.
RECURSIVE applyLinesStopsAtParseError(_, _, _)
applyLinesStopsAtParseError(st, id, lines) ==
    IF lines = <<>> THEN st
    ELSE IF Head(lines) = BrokenLine THEN st
    ELSE applyLinesStopsAtParseError(applyLine(st, id, Head(lines)), id,
                                     Tail(lines))

RECURSIVE applyLines(_, _, _)
applyLines(st, id, lines) ==
    IF lines = <<>> THEN st
    ELSE applyLines(applyLine(st, id, Head(lines)), id, Tail(lines))

\* Variant: the loading flag is not consulted.
submitBlockedIgnoresLoading(text, loading) == trim(text) = <<>>

\* if (!input.trim() || isLoading) return
submitBlocked(text, loading) == trim(text) = <<>> \/ loading

\* Variant: setIsLoading(true) is missing.
loadingOnSubmitMissing(loading) == loading

\* setIsLoading(true)
loadingOnSubmit(loading) == TRUE

\* A handleSubmit call that has not started or has returned.  `deltas`,
\* `failed`, `sent` and `cut` are history: the texts of the text_delta events
\* applied, whether an error event was applied, the texts of the text_delta
\* lines delivered completely, and whether the last chunk ended inside a line.
NoLocals ==
    [streamingContent |-> <<>>, streamingMessageId |-> -1,
     deltas |-> <<>>, failed |-> FALSE, sent |-> <<>>, cut |-> FALSE]

\* history: the texts of the text_delta lines whose last byte this chunk
\* delivers, in order.
RECURSIVE delivered(_)
delivered(lines) ==
    IF lines = <<>> THEN <<>>
    ELSE (IF Head(lines) = TailLine THEN <<CutText>>
          ELSE IF Head(lines).prefix /\ Head(lines).parses
                    /\ Head(lines).json.type = "text_delta"
               THEN <<Head(lines).json.text>>
               ELSE <<>>) \o delivered(Tail(lines))

\* Variant: the comparison of the filter is inverted.
removePlaceholderKeepsOnlyIt(prev, id, streamingContent) ==
    IF streamingContent = <<>>
    THEN SelectSeq(prev, LAMBDA msg : msg.id = id)
    ELSE prev

\* if (!streamingContent) setMessages(prev => prev.filter(...))
removePlaceholder(prev, id, streamingContent) ==
    IF streamingContent = <<>>
    THEN SelectSeq(prev, LAMBDA msg : msg.id # id)
    ELSE prev

\* history: the chunks read so far by all calls
RECURSIVE TotalReads(_)
TotalReads(cs) ==
    IF cs = <<>> THEN 0 ELSE Head(cs).reads + TotalReads(Tail(cs))

InFlight(c) == c.pc \in {"fetching", "reading"}

\* Variant: the finally block is missing.
CaughtWithoutFinally(i) ==
    /\ messages' = Append(messages, [id |-> nextId, role |-> "assistant",
                                    content |-> CatchErrorText])
    /\ nextId' = nextId + 1
    /\ calls' = [calls EXCEPT ![i] = [pc |-> "returned", reads |-> calls[i].reads] @@ NoLocals]
    /\ UNCHANGED <<isLoading, currentTool>>

\* catch + finally
Caught(i) ==
    /\ messages' = Append(messages, [id |-> nextId, role |-> "assistant",
                                    content |-> CatchErrorText])
    /\ nextId' = nextId + 1
    /\ isLoading' = FALSE
    /\ currentTool' = Null
    /\ calls' = [calls EXCEPT ![i] = [pc |-> "returned", reads |-> calls[i].reads] @@ NoLocals]

\* The submit event of the form, or Enter in the textarea.
handleSubmit ==
    /\ IF submitBlocked(input, isLoading)
       THEN /\ chatEvent' = [ev |-> "submit", started |-> FALSE]
            /\ UNCHANGED <<messages, input, isLoading, currentTool, calls,
                           nextId>>
       ELSE /\ Len(calls) < MaxSubmits
            /\ messages' = Append(messages, [id |-> nextId, role |-> "user",
                                            content |-> trim(input)])
            /\ nextId' = nextId + 1
            /\ input' = <<>>
            /\ isLoading' = loadingOnSubmit(isLoading)
            /\ currentTool' = Null
            /\ calls' = Append(calls, [pc |-> "fetching", reads |-> 0] @@ NoLocals)
            /\ chatEvent' = [ev |-> "submit", started |-> TRUE]
    /\ UNCHANGED <<wmVars, relayVars>>

\* onChange of the textarea, which is disabled while isLoading.
onChange(text) ==
    /\ ~isLoading
    /\ input' = text
    /\ chatEvent' = [ev |-> "change"]
    /\ UNCHANGED <<messages, isLoading, currentTool, calls, nextId>>
    /\ UNCHANGED <<wmVars, relayVars>>

\* await fetch(...) settles: rejected, not ok, ok without body, ok with body.
FetchSettles(i, outcome) ==
    /\ calls[i].pc = "fetching"
    /\ IF outcome = "ok"
       THEN /\ messages' = Append(messages, [id |-> nextId,
                                            role |-> "assistant",
                                            content |-> <<>>])
            /\ nextId' = nextId + 1
            /\ calls' = [calls EXCEPT ![i] =
                            [@ EXCEPT !.pc = "reading",
                                      !.streamingMessageId = nextId]]
            /\ UNCHANGED <<isLoading, currentTool>>
       ELSE Caught(i)
    /\ chatEvent' = [ev |-> "fetch", outcome |-> outcome]
    /\ UNCHANGED input
    /\ UNCHANGED <<wmVars, relayVars>>

\* await reader.read() resolves with a chunk.
ReadChunk(i, lines) ==
    /\ calls[i].pc = "reading"
    /\ TotalReads(calls) < MaxChunks
    /\ Head(lines) = TailLine => calls[i].cut
    /\ LET c == calls[i]
           st == applyLines([streamingContent |-> c.streamingContent,
                             messages |-> messages,
                             currentTool |-> currentTool,
                             deltas |-> c.deltas, failed |-> c.failed],
                            c.streamingMessageId, lines)
       IN  /\ messages' = st.messages
           /\ currentTool' = st.currentTool
           /\ calls' = [calls EXCEPT ![i] =
                           [@ EXCEPT !.streamingContent = st.streamingContent,
                                     !.reads = @ + 1,
                                     !.deltas = st.deltas,
                                     !.failed = st.failed,
                                     !.sent = @ \o delivered(lines),
                                     !.cut = (lines[Len(lines)] = BrokenLine)]]
    /\ chatEvent' = [ev |-> "chunk", call |-> i, lines |-> lines]
    /\ UNCHANGED <<input, isLoading, nextId>>
    /\ UNCHANGED <<wmVars, relayVars>>

\* await reader.read() resolves with done: placeholder removal, finally.
ReadDone(i) ==
    /\ calls[i].pc = "reading"
    /\ messages' = removePlaceholder(messages, calls[i].streamingMessageId,
                                     calls[i].streamingContent)
    /\ isLoading' = FALSE
    /\ currentTool' = Null
    /\ calls' = [calls EXCEPT ![i] = [pc |-> "returned", reads |-> calls[i].reads] @@ NoLocals]
    /\ chatEvent' = [ev |-> "end", call |-> i]
    /\ UNCHANGED <<input, nextId>>
    /\ UNCHANGED <<wmVars, relayVars>>

\* await reader.read() rejects: catch, finally.
ReadFails(i) ==
    /\ calls[i].pc = "reading"
    /\ Caught(i)
    /\ chatEvent' = [ev |-> "readError", call |-> i]
    /\ UNCHANGED input
    /\ UNCHANGED <<wmVars, relayVars>>

ChatInit ==
    /\ messages = <<Welcome>>
    /\ input = <<>>
    /\ isLoading = FALSE
    /\ currentTool = Null
    /\ calls = <<>>
    /\ nextId = 1
    /\ chatEvent = [ev |-> "none"]
    /\ WmOff
    /\ RelayOff

ChatNext ==
    \/ handleSubmit
    \/ \E text \in InputTexts : onChange(text)
    \/ \E i \in 1..Len(calls), outcome \in {"ok", "notOk", "noBody", "rejected"} :
          FetchSettles(i, outcome)
    \/ \E i \in 1..Len(calls), lines \in Chunks : ReadChunk(i, lines)
    \/ \E i \in 1..Len(calls) : ReadDone(i)
    \/ \E i \in 1..Len(calls) : ReadFails(i)

SpecChat == ChatInit /\ [][ChatNext]_vars

\* A step that settles an await of a request other than with one more chunk:
\* the fetch settles, or reader.read() reports done or rejects.
Settles ==
    \E i \in 1..Len(calls) :
        \/ \E outcome \in {"ok", "notOk", "noBody", "rejected"} :
              FetchSettles(i, outcome)
        \/ ReadDone(i)
        \/ ReadFails(i)

\* The fetch of a request settles and its stream reads end.
SpecChatFair == ChatInit /\ [][ChatNext]_vars /\ WF_vars(Settles)

(***************************************************************************)
(* Properties                                                              *)
(***************************************************************************)
\* Positions in registry ws of the records with this id.
At(ws, id) == {i \in 1..Len(ws) : ws[i].id = id}

\* The fields of a record that are neither flags nor the stacking index.
Payload(w) ==
    <<w.id, w.title, w.icon, w.x, w.y, w.width, w.height, w.minWidth,
      w.minHeight, w.content>>

FocusCausing == {"open", "restore", "focus"}
NotOpen == {"close", "minimize", "maximize", "restore", "focus", "move",
            "resize"}

\* C1: after every sequence of operations from the empty registry, at most
\* one window record has isFocused = true.
C1_AtMostOneFocused ==
    Cardinality({i \in 1..Len(windows) : windows[i].isFocused}) <= 1

C1_Witness ==
    /\ lastOp.op = "focus" /\ lastOp.known
    /\ Len(windows) = 2
    /\ \E i \in 1..Len(windows) : windows[i].isFocused

\* C2: close, minimize, maximize, restore, focus, move and resize called with
\* an id that is not in the registry leave every window record as it was.
C2_UnknownIdIsNoOp ==
    [][(lastOp'.op \in NotOpen /\ ~lastOp'.known) => windows' = windows]_vars

\* C3: open with an id already in the registry adds no record and ignores the
\* record passed in: the existing window keeps title, geometry, maximized flag
\* and content, is no longer minimized, is focused, and its stacking index is
\* strictly greater than that of every other window.
C3_ReopenKeepsRecord ==
    [][(lastOp'.op = "open" /\ lastOp'.known) =>
        /\ Len(windows') = Len(windows)
        /\ \A i \in 1..Len(windows) : windows'[i].id = windows[i].id
        /\ \A i \in At(windows, lastOp'.id) :
              /\ Payload(windows'[i]) = Payload(windows[i])
              /\ windows'[i].isMaximized = windows[i].isMaximized
              /\ ~windows'[i].isMinimized
              /\ windows'[i].isFocused
              /\ \A j \in 1..Len(windows') \ {i} :
                    /\ windows'[i].zIndex > windows'[j].zIndex
                    /\ ~windows'[j].isFocused
      ]_vars

C3_Witness ==
    /\ lastOp.op = "open" /\ lastOp.known
    /\ Len(windows) = 2
    /\ \E i \in At(windows, lastOp.id) :
          /\ windows[i].title # lastOp.arg.title
          /\ windows[i].isMaximized # lastOp.arg.isMaximized
          /\ <<windows[i].x, windows[i].width>>
                # <<lastOp.arg.x, lastOp.arg.width>>

\* C4: close of an existing id removes exactly that record, leaving the other
\* records and their order as they were; a second close of the same id right
\* after it changes neither the registry nor the top stacking counter.
C4_CloseRemovesOnce ==
    [][/\ (lastOp'.op = "close" /\ lastOp'.known) =>
            /\ Cardinality(At(windows, lastOp'.id)) = 1
            /\ \A i \in At(windows, lastOp'.id) :
                  windows' = SubSeq(windows, 1, i - 1)
                                \o SubSeq(windows, i + 1, Len(windows))
       /\ (lastOp.op = "close" /\ lastOp'.op = "close"
                /\ lastOp'.id = lastOp.id) =>
            /\ windows' = windows
            /\ topZIndex' = topZIndex
      ]_vars

C4_Witness ==
    /\ lastOp.op = "close" /\ lastOp.known
    /\ Len(windows) = 1
    /\ topZIndex >= InitialZIndex + 2

\* C5: after open (new or existing id), restore of an existing id or focus of
\* an existing id, the window's stacking index is strictly greater than its
\* own previous index and than the index of every other window.
C5_FocusRaisesToTop ==
    [][(lastOp'.op \in FocusCausing /\ (lastOp'.op = "open" \/ lastOp'.known)) =>
        /\ At(windows', lastOp'.id) # {}
        /\ \A i \in At(windows', lastOp'.id) :
              /\ \A k \in At(windows, lastOp'.id) :
                    windows'[i].zIndex > windows[k].zIndex
              /\ \A j \in 1..Len(windows') \ {i} :
                    windows'[i].zIndex > windows'[j].zIndex
      ]_vars

C5_Witness ==
    /\ lastOp.op \in FocusCausing /\ lastOp.known
    /\ Len(windows) = 2
    /\ windows[1].id = lastOp.id
    /\ windows[1].zIndex > windows[2].zIndex

\* C6: open with an id not in the registry appends exactly one record holding
\* the passed fields with isFocused = true and stacking index = previous top
\* counter + 1, clears isFocused on every record already there and changes no
\* other field of them.
C6_OpenAppends ==
    [][(lastOp'.op = "open" /\ ~lastOp'.known) =>
        /\ Len(windows') = Len(windows) + 1
        /\ \A i \in 1..Len(windows) :
              windows'[i] = [windows[i] EXCEPT !.isFocused = FALSE]
        /\ LET new == windows'[Len(windows')]
               arg == lastOp'.arg
           IN  /\ Payload(new) = Payload(arg)
               /\ new.isMinimized = arg.isMinimized
               /\ new.isMaximized = arg.isMaximized
               /\ new.isFocused
               /\ new.zIndex = topZIndex + 1
               /\ DOMAIN new = DOMAIN arg \cup {"zIndex", "isFocused"}
      ]_vars

C6_Witness ==
    /\ lastOp.op = "open" /\ ~lastOp.known
    /\ Len(windows) = 2
    /\ windows[2].id = lastOp.id
    /\ windows[1].isMinimized

\* C7: minimize of an existing id sets that window's minimized flag and clears
\* its focused flag; its other fields, the top stacking counter and every
\* field of every other window are unchanged.
C7_MinimizeFrame ==
    [][(lastOp'.op = "minimize" /\ lastOp'.known) =>
        /\ topZIndex' = topZIndex
        /\ Len(windows') = Len(windows)
        /\ \A i \in 1..Len(windows) :
              IF windows[i].id = lastOp'.id
              THEN windows'[i] = [windows[i] EXCEPT !.isMinimized = TRUE,
                                                    !.isFocused = FALSE]
              ELSE windows'[i] = windows[i]
      ]_vars

C7_Witness ==
    /\ lastOp.op = "minimize" /\ lastOp.known
    /\ Len(windows) = 2
    /\ \E i \in 1..2 : windows[i].id # lastOp.id /\ windows[i].isFocused

\* C8: maximize of an existing id flips only that window's maximized flag (no
\* stacking index, no focused flag, not the top counter), and maximize of the
\* same id twice in a row gives back the registry as it was before the first.
C8_MaximizeToggles ==
    [][/\ (lastOp'.op = "maximize" /\ lastOp'.known) =>
            /\ topZIndex' = topZIndex
            /\ Len(windows') = Len(windows)
            /\ \A i \in 1..Len(windows) :
                  IF windows[i].id = lastOp'.id
                  THEN windows'[i] = [windows[i] EXCEPT
                                        !.isMaximized = ~windows[i].isMaximized]
                  ELSE windows'[i] = windows[i]
       /\ (lastOp.op = "maximize" /\ lastOp.known
                /\ lastOp'.op = "maximize" /\ lastOp'.id = lastOp.id) =>
            windows' = beforeToggle
      ]_vars

C8_Witness ==
    /\ lastOp.op = "maximize" /\ lastOp.known
    /\ Len(windows) = 2
    /\ beforeToggle # windows
    /\ \E i \in At(windows, lastOp.id) : ~windows[i].isMaximized

\* C9: restore of an existing id leaves that window not minimized, focused,
\* with stacking index = previous top counter + 1 and its other fields
\* unchanged; every other window is unfocused and otherwise unchanged.
C9_RestoreEffect ==
    [][(lastOp'.op = "restore" /\ lastOp'.known) =>
        /\ Len(windows') = Len(windows)
        /\ \A i \in 1..Len(windows) :
              IF windows[i].id = lastOp'.id
              THEN windows'[i] = [windows[i] EXCEPT !.isMinimized = FALSE,
                                                    !.isFocused = TRUE,
                                                    !.zIndex = topZIndex + 1]
              ELSE windows'[i] = [windows[i] EXCEPT !.isFocused = FALSE]
      ]_vars

C9_Witness ==
    /\ lastOp.op = "restore" /\ lastOp.known
    /\ Len(windows) = 2
    /\ \E i \in At(windows, lastOp.id) :
          windows[i].isMaximized /\ windows[i].zIndex = InitialZIndex + 3

\* C10: focus of an existing id makes that window focused with a new top
\* stacking index and leaves the minimized and maximized flags of every
\* window, the target included, as they were.
C10_FocusKeepsFlags ==
    [][(lastOp'.op = "focus" /\ lastOp'.known) =>
        /\ Len(windows') = Len(windows)
        /\ topZIndex' > topZIndex
        /\ \A i \in 1..Len(windows) :
              /\ windows'[i].id = windows[i].id
              /\ windows'[i].isMinimized = windows[i].isMinimized
              /\ windows'[i].isMaximized = windows[i].isMaximized
        /\ \A i \in At(windows, lastOp'.id) :
              /\ windows'[i].isFocused
              /\ windows'[i].zIndex = topZIndex'
              /\ \A j \in 1..Len(windows') \ {i} :
                    windows'[j].zIndex < windows'[i].zIndex
      ]_vars

C10_Witness ==
    /\ lastOp.op = "focus" /\ lastOp.known
    /\ Len(windows) = 2
    /\ \E i \in At(windows, lastOp.id) :
          windows[i].isMinimized /\ windows[i].isFocused

\* C11: move changes only x and y of the window with that id and resize only
\* its width and height; flags, stacking indices, the top counter, the order
\* of the registry and all other windows are unchanged.
C11_GeometryOnly ==
    [][/\ lastOp'.op = "move" =>
            /\ topZIndex' = topZIndex
            /\ Len(windows') = Len(windows)
            /\ \A i \in 1..Len(windows) :
                  IF windows[i].id = lastOp'.id
                  THEN windows'[i] = [windows[i] EXCEPT !.x = lastOp'.arg.x,
                                                        !.y = lastOp'.arg.y]
                  ELSE windows'[i] = windows[i]
       /\ lastOp'.op = "resize" =>
            /\ topZIndex' = topZIndex
            /\ Len(windows') = Len(windows)
            /\ \A i \in 1..Len(windows) :
                  IF windows[i].id = lastOp'.id
                  THEN windows'[i] =
                         [windows[i] EXCEPT !.width = lastOp'.arg.width,
                                            !.height = lastOp'.arg.height]
                  ELSE windows'[i] = windows[i]
      ]_vars

\* A window opened at (100, 50) with size 600 x 500 has been moved and resized
\* while another window holds the focus.
C11_Witness ==
    /\ lastOp.op \in {"move", "resize"} /\ lastOp.known
    /\ Len(windows) = 2
    /\ \E i \in At(windows, lastOp.id) :
          /\ windows[i].title = "Install Guide.md"
          /\ <<windows[i].x, windows[i].y>> = <<200, 80>>
          /\ <<windows[i].width, windows[i].height>> = <<500, 550>>
          /\ ~windows[i].isFocused
    /\ \E j \in 1..2 : windows[j].isFocused

\* C26: in every reachable registry state no two window records share an id,
\* for any sequence of operations, repeated open of one id and open after
\* close of that id included.
C26_UniqueIds ==
    \A i, j \in 1..Len(windows) : windows[i].id = windows[j].id => i = j

\* An id was opened while in the registry, after the registry had held two
\* windows and lost one of them.
C26_Witness ==
    /\ lastOp.op = "open" /\ lastOp.known
    /\ Len(windows) = 1
    /\ windows[1].zIndex >= InitialZIndex + 3

\* The stacking indices are pairwise distinct and lie in (100, topZIndex].
StackingOrdered ==
    /\ \A i, j \in 1..Len(windows) :
          windows[i].zIndex = windows[j].zIndex => i = j
    /\ \A i \in 1..Len(windows) :
          /\ windows[i].zIndex > InitialZIndex
          /\ windows[i].zIndex <= topZIndex

\* C28: in every reachable state the stacking indices of the windows in the
\* registry are pairwise distinct, each is greater than 100 and at most the
\* top counter, and no operation (close included) decreases the top counter.
C28_StackingIndices ==
    [][StackingOrdered /\ StackingOrdered' /\ topZIndex' >= topZIndex]_vars

C28_Witness ==
    /\ lastOp.op = "close" /\ lastOp.known
    /\ Len(windows) = 1
    /\ windows[1].zIndex = InitialZIndex + 1
    /\ topZIndex = InitialZIndex + 3

MinimizedAndFocused(w) == w.isMinimized /\ w.isFocused

\* C29 (as claimed): after any sequence of window-manager operations no
\* window record is both minimized and focused.
C29_NeverMinimizedAndFocused ==
    \A i \in 1..Len(windows) : ~MinimizedAndFocused(windows[i])

\* The two calls that produce a minimized and focused record: focus of a
\* minimized window, and open of a new id with a record passed as minimized.
FocusOfMinimized ==
    /\ lastOp'.op = "focus"
    /\ \E i \in At(windows, lastOp'.id) : windows[i].isMinimized

OpenAsMinimized ==
    lastOp'.op = "open" /\ ~lastOp'.known /\ lastOp'.arg.isMinimized

\* C29 (amended): if no window record is both minimized and focused, then
\* none is after any operation other than focus of a minimized window and
\* open of a new id with a record passed as minimized; those two calls leave
\* their target both minimized and focused.
C29_MinimizedFocusedOnlyByFocusOrOpen ==
    [][/\ (C29_NeverMinimizedAndFocused /\ ~FocusOfMinimized
                /\ ~OpenAsMinimized) => C29_NeverMinimizedAndFocused'
       /\ (FocusOfMinimized \/ OpenAsMinimized) =>
             \E i \in At(windows', lastOp'.id) :
                MinimizedAndFocused(windows'[i])
      ]_vars

\* The focused window was minimized while another window stays minimized.
C29_Witness ==
    /\ lastOp.op = "minimize" /\ lastOp.known
    /\ Len(windows) = 2
    /\ \A i \in 1..2 : windows[i].isMinimized /\ ~windows[i].isFocused
    /\ topZIndex = InitialZIndex + 2

(***************************************************************************)
(* Properties of the relay endpoint                                        *)
(***************************************************************************)
Last(seq) == seq[Len(seq)]

\* The type of the event a line of the stream carries.
TypeOf(ln) == IF ln = DONE THEN "[DONE]" ELSE ln.json.type

CountType(lines, type) ==
    Cardinality({i \in 1..Len(lines) : TypeOf(lines[i]) = type})

ClientEventTypes ==
    {"text_delta", "tool_start", "tool_progress", "done", "error"}

Accepted == relayPc \in {"streaming", "closed"}

RECURSIVE Flatten(_)
Flatten(seqs) ==
    IF seqs = <<>> THEN <<>> ELSE Head(seqs) \o Flatten(Tail(seqs))

\* C12: for every accepted request, on every path through the streaming loop
\* (upstream ends, or the iteration throws), the last line written before the
\* stream is closed is the sentinel data: [DONE].
C12_SentinelOnEveryPath ==
    relayPc = "closed" => (written # <<>> /\ Last(written) = DONE)

\* C13: when the agent iteration finishes without throwing, data: [DONE] is
\* written exactly once, after every translated event, and the stream is then
\* closed; no line follows the sentinel.
C13_SentinelOnceAtEnd ==
    ending # "threw" =>
        /\ \A i \in 1..Len(written) :
              written[i] = DONE => (i = Len(written) /\ relayPc = "closed")
        /\ relayPc = "closed" =>
              /\ CountType(written, "[DONE]") = 1
              /\ Last(written) = DONE
              /\ closeCount = 1

C13_Witness ==
    /\ relayPc = "closed" /\ ending = "ended"
    /\ Len(upstream) = MaxUpstream
    /\ Len(written) >= 4

\* The message list of a request body holds only {role, content} entries.
WellFormedList(items) == \A i \in 1..Len(items) : items[i].t = "msg"

\* C14: a request whose messages value is missing, is not an array, is an
\* empty array, or is an array of messages none of which has role 'user' is
\* answered with status 400 and a JSON body carrying an error string, and no
\* event stream is returned.
C14_Rejects400 ==
    (/\ relayPc # "received"
     /\ request.json = "object"
     /\ \/ request.messages.t # "array"
        \/ /\ WellFormedList(request.messages.items)
           /\ \A i \in 1..Len(request.messages.items) :
                 request.messages.items[i].role # "user")
    => /\ response.status = 400
       /\ response.kind = "json"
       /\ response.error \in {"Messages array is required",
                              "No user message found"}
       /\ relayPc = "rejected"
       /\ written = <<>> /\ prompt = <<>>

C14_Witness ==
    /\ relayPc = "rejected"
    /\ request.json = "object" /\ request.messages.t = "array"
    /\ Len(request.messages.items) = 2
    /\ WellFormedList(request.messages.items)
    /\ response = [status |-> 400, kind |-> "json",
                   error |-> "No user message found"]

\* The request is malformed: not JSON, not an object, or a message list with
\* an entry that is not a {role, content} object.
Malformed ==
    \/ request.json \in {"invalid", "null"}
    \/ /\ request.json = "object" /\ request.messages.t = "array"
       /\ ~WellFormedList(request.messages.items)

\* C15: every request with malformed input is answered with status 400;
\* status 500 is returned only for failures not caused by the request's shape.
C15_Malformed400 ==
    (relayPc # "received" /\ Malformed) => response.status = 400

\* C16: for each upstream result message exactly one terminal event is
\* emitted: done and no error when its subtype is success, error and no done
\* otherwise.
C16_OneTerminalEventPerResult ==
    [][(/\ Len(upstream') = Len(upstream) + 1
        /\ Last(upstream').type = "result") =>
        LET new == SubSeq(written', Len(written) + 1, Len(written'))
        IN  /\ SubSeq(written', 1, Len(written)) = written
            /\ CountType(new, "done") + CountType(new, "error") = 1
            /\ Last(upstream').subtype = "success"
                  => CountType(new, "done") = 1
            /\ Last(upstream').subtype # "success"
                  => CountType(new, "error") = 1
      ]_vars

C16_Witness ==
    /\ relayPc = "streaming"
    /\ Len(upstream) = 3
    /\ upstream[2] = [type |-> "result", subtype |-> "error_max_turns"]
    /\ upstream[3] = [type |-> "result", subtype |-> "success"]
    /\ CountType(written, "error") = 1 /\ CountType(written, "done") = 1

\* The events the claim expects for one upstream message.
ExpectedEvents(m) ==
    IF m.type = "stream_event"
    THEN IF m.event.type = "content_block_delta"
              /\ m.event.delta.type = "text_delta"
         THEN << [line |-> "data",
                  json |-> [type |-> "text_delta", text |-> m.event.delta.text]] >>
         ELSE <<>>
    ELSE IF m.type = "assistant"
    THEN LET uses == SelectSeq(m.content, LAMBDA b : b.type = "tool_use")
         IN  [i \in 1..Len(uses) |->
                [line |-> "data",
                 json |-> [type |-> "tool_start", tool |-> uses[i].name]]]
    ELSE IF m.type = "tool_progress"
    THEN << [line |-> "data",
             json |-> [type |-> "tool_progress", tool |-> m.tool_name,
                       elapsed |-> m.elapsed_time_seconds]] >>
    ELSE IF m.type = "result"
    THEN << [line |-> "data",
             json |-> IF m.subtype = "success" THEN [type |-> "done"]
                      ELSE [type |-> "error",
                            message |-> "Query did not complete successfully"]] >>
    ELSE <<>>

\* C17: every line written is the sentinel or a JSON object whose type is one
\* of text_delta, tool_start, tool_progress, done, error; the events appear in
\* the order of the upstream messages that caused them, one text_delta per
\* text delta, one tool_start per tool_use block, one tool_progress per
\* progress message, and nothing for upstream messages of another kind.
C17_TranslatesInOrder ==
    /\ \A i \in 1..Len(written) :
          TypeOf(written[i]) \in ClientEventTypes \cup {"[DONE]"}
    /\ LET body == IF relayPc = "closed"
                   THEN SubSeq(written, 1, Len(written) - 1) ELSE written
       IN  body = Flatten([i \in 1..Len(upstream) |-> ExpectedEvents(upstream[i])])

C17_Witness ==
    /\ relayPc = "closed"
    /\ Len(upstream) = 3
    /\ upstream[1].type = "assistant" /\ Len(upstream[1].content) = 3
    /\ upstream[2].type = "tool_progress"
    /\ upstream[3].type = "stream_event"
    /\ Len(written) = 5

\* C18: the prompt is the fixed instruction string, then exactly the messages
\* that precede the final user message, each once and in list order as a
\* 'User:' / 'Assistant:' turn, then the final user message once; also when
\* the last entry of the list is an assistant message.
C18_PromptTurns ==
    Accepted =>
        LET items == request.messages.items
            k == CHOOSE i \in 1..Len(items) :
                    /\ items[i].role = "user"
                    /\ \A j \in 1..Len(items) : items[j].role = "user" => j <= i
            turns == [i \in 1..(k - 1) |->
                        [part |-> "turn",
                         label |-> IF items[i].role = "user" THEN "User"
                                   ELSE "Assistant",
                         content |-> items[i].content]]
        IN  SelectSeq(prompt, LAMBDA q : q # ContextHeader)
              = <<SYSTEM_PROMPT>> \o turns
                  \o << [part |-> "turn", label |-> "User",
                         content |-> items[k].content] >>

\* C30: for every accepted request whose upstream iteration eventually ends
\* or throws, the HTTP stream is eventually closed, it is closed exactly
\* once, and nothing is written to it after it is closed.
C30_ClosedOnce ==
    /\ (relayPc = "streaming") ~> (relayPc = "closed" /\ closeCount = 1)
    /\ [][/\ closeCount' <= 1
          /\ closeCount >= 1 => (written' = written /\ closeCount' = closeCount)
         ]_vars

C30_Witness ==
    /\ relayPc = "closed" /\ ending = "threw"
    /\ closeCount = 1
    /\ Len(upstream) = 2
    /\ Len(written) = 3

(***************************************************************************)
(* Properties of the chat client                                           *)
(***************************************************************************)
InFlightCalls == {i \in 1..Len(calls) : InFlight(calls[i])}

\* C19: the client never has two relay requests in flight; a submit event
\* handled while isLoading is true starts no fetch and appends no message,
\* whatever the interleaving of submit events with stream events.
C19_OneRequestInFlight ==
    [][/\ Cardinality(InFlightCalls') <= 1
       /\ (isLoading /\ chatEvent'.ev = "submit") =>
             /\ ~chatEvent'.started
             /\ calls' = calls
             /\ messages' = messages
      ]_vars

C19_Witness ==
    /\ isLoading
    /\ chatEvent = [ev |-> "submit", started |-> FALSE]
    /\ Len(calls) = 2
    /\ calls[2].pc = "reading" /\ calls[2].deltas # <<>>

\* The positions in list msgs of the messages with this id.
WithId(msgs, id) == {k \in 1..Len(msgs) : msgs[k].id = id}

\* C20: while a response streams and no error event has arrived, after each
\* text_delta the streaming assistant message's content is the concatenation,
\* in arrival order, of the texts of all text_delta events received so far for
\* this request, and no other message's content changes.
C20_ContentIsConcatenation ==
    [][\A i \in 1..Len(calls') :
          (calls'[i].pc = "reading" /\ ~calls'[i].failed) =>
             /\ Cardinality(WithId(messages', calls'[i].streamingMessageId)) = 1
             /\ \A k \in WithId(messages', calls'[i].streamingMessageId) :
                   messages'[k].content = Flatten(calls'[i].deltas)
             /\ chatEvent'.ev = "chunk" =>
                   /\ Len(messages') = Len(messages)
                   /\ \A k \in 1..Len(messages) :
                         messages[k].id # calls'[i].streamingMessageId
                            => messages'[k] = messages[k]
      ]_vars

C20_Witness ==
    /\ chatEvent.ev = "chunk"
    /\ Len(messages) = 5
    /\ \E i \in 1..Len(calls) :
          /\ calls[i].pc = "reading" /\ ~calls[i].failed
          /\ calls[i].deltas = << <<"a">>, <<"b">> >>
    /\ \E k \in 1..Len(messages) : messages[k].content = <<"a">>

\* The events of the lines of a chunk that carry one: `data: ` lines whose
\* payload parses.
GoodEvents(lines) ==
    LET good == SelectSeq(lines, LAMBDA l : l.prefix /\ l.parses)
    IN  [k \in 1..Len(good) |-> good[k].json]

HasBroken(lines) == \E k \in 1..Len(lines) : lines[k] = BrokenLine

\* The indicator after these events, from the indicator before them.
RECURSIVE ExpectTool(_, _)
ExpectTool(tool, events) ==
    IF events = <<>> THEN tool
    ELSE LET e == Head(events)
             next == IF e.type = "tool_start"
                     THEN [t |-> "tool", name |-> e.tool, status |-> "running"]
                     ELSE IF e.type \in {"text_delta", "done", "error"}
                     THEN Null
                     ELSE IF tool = Null THEN Null
                     ELSE [t |-> "tool", name |-> tool.name,
                           status |-> tool.status, elapsed |-> e.elapsed]
         IN  ExpectTool(next, Tail(events))

\* The content of the streaming message after these events.
RECURSIVE ExpectContent(_, _)
ExpectContent(content, events) ==
    IF events = <<>> THEN content
    ELSE LET e == Head(events)
             next == IF e.type = "text_delta" THEN content \o e.text
                     ELSE IF e.type = "error" THEN StreamErrorText
                     ELSE content
         IN  ExpectContent(next, Tail(events))

\* C21: a chunk with a data: line whose payload fails to parse leaves the
\* request reading, and its effect on the message list and the tool indicator
\* is that of its well-formed events alone, those after the bad line included;
\* with no well-formed event it changes neither.
C21_ParseFailureIgnored ==
    [][(chatEvent'.ev = "chunk" /\ HasBroken(chatEvent'.lines)) =>
        LET i == chatEvent'.call
            id == calls[i].streamingMessageId
            good == GoodEvents(chatEvent'.lines)
        IN  /\ calls'[i].pc = "reading"
            /\ isLoading' = isLoading
            /\ currentTool' = ExpectTool(currentTool, good)
            /\ Len(messages') = Len(messages)
            /\ \A k \in 1..Len(messages) :
                  messages'[k] =
                     IF messages[k].id = id
                     THEN [messages[k] EXCEPT
                             !.content = ExpectContent(@, good)]
                     ELSE messages[k]
      ]_vars

\* A tool_start and a tool_progress that follow an unparseable line in one
\* chunk have been applied after text had streamed.
C21_Witness ==
    /\ chatEvent.ev = "chunk" /\ HasBroken(chatEvent.lines)
    /\ Len(chatEvent.lines) = 3
    /\ currentTool = [t |-> "tool", name |-> "Read", status |-> "running",
                      elapsed |-> 2]
    /\ calls[chatEvent.call].deltas # <<>>
    /\ isLoading

Max(S) == CHOOSE x \in S : \A y \in S : y <= x

\* What one event shows: a tool_start its tool, any other event nothing.
ShownBy(e) ==
    IF e.type = "tool_start"
    THEN [t |-> "tool", name |-> e.tool, status |-> "running"]
    ELSE Null

\* C22: after a tool_start the indicator names that tool; after a text_delta,
\* done or error it is empty; a tool_progress sets the elapsed time of an
\* indicator that is showing and leaves an empty indicator empty.
C22_ToolIndicator ==
    [][(chatEvent'.ev = "chunk" /\ GoodEvents(chatEvent'.lines) # <<>>) =>
        LET good == GoodEvents(chatEvent'.lines)
            last == good[Len(good)]
            others == {k \in 1..Len(good) : good[k].type # "tool_progress"}
            before == IF others = {} THEN currentTool
                      ELSE ShownBy(good[Max(others)])
        IN  /\ last.type = "tool_start" =>
                  /\ currentTool' # Null
                  /\ currentTool'.name = last.tool
            /\ last.type \in {"text_delta", "done", "error"} =>
                  currentTool' = Null
            /\ last.type = "tool_progress" =>
                  /\ before = Null => currentTool' = Null
                  /\ before # Null =>
                        /\ currentTool' # Null
                        /\ currentTool'.name = before.name
                        /\ currentTool'.status = before.status
                        /\ currentTool'.elapsed = last.elapsed
      ]_vars

\* A progress event arrived in a chunk of its own while a tool was showing.
C22_Witness ==
    /\ chatEvent.ev = "chunk"
    /\ Len(chatEvent.lines) = 1
    /\ GoodEvents(chatEvent.lines) # <<>>
    /\ GoodEvents(chatEvent.lines)[1].type = "tool_progress"
    /\ currentTool # Null
    /\ currentTool.elapsed = 2

\* C23: right after an error event is applied the streaming assistant
\* message's content is the fixed error string, whatever text was accumulated
\* before, and the message is still in the list when the stream ends.
C23_ErrorReplacesContent ==
    [][/\ (/\ chatEvent'.ev = "chunk"
           /\ GoodEvents(chatEvent'.lines) # <<>>
           /\ GoodEvents(chatEvent'.lines)[Len(GoodEvents(chatEvent'.lines))].type
                 = "error") =>
            LET id == calls[chatEvent'.call].streamingMessageId
            IN  /\ WithId(messages', id) # {}
                /\ \A k \in WithId(messages', id) :
                      messages'[k].content = StreamErrorText
       /\ (/\ chatEvent'.ev \in {"end", "readError"}
           /\ calls[chatEvent'.call].pc = "reading"
           /\ calls[chatEvent'.call].failed) =>
            LET id == calls[chatEvent'.call].streamingMessageId
            IN  /\ WithId(messages, id) # {}
                /\ \A k \in WithId(messages, id) :
                      k <= Len(messages') /\ messages'[k] = messages[k]
      ]_vars

\* An error event was applied to a message that held streamed text.
C23_Witness ==
    /\ chatEvent.ev = "chunk"
    /\ LET c == calls[chatEvent.call]
       IN  /\ c.failed /\ c.deltas # <<>>
           /\ c.streamingContent = StreamErrorText
           /\ \E k \in WithId(messages, c.streamingMessageId) :
                 messages[k].content = StreamErrorText

\* C24 (as claimed): when the stream ends without a text_delta having been
\* received, the request's placeholder is no longer in the list, whatever
\* other events (tool_start, tool_progress, done, error) the stream carried.
C24_RemovedWithoutTextDelta ==
    [][(/\ chatEvent'.ev = "end"
        /\ calls[chatEvent'.call].deltas = <<>>) =>
          WithId(messages', calls[chatEvent'.call].streamingMessageId) = {}
      ]_vars

\* C24 (amended): when the stream ends without a text_delta or an error event
\* having been received, the request's placeholder is no longer in the list
\* and the rest of the list is as it was.
C24_RemovedWithoutTextOrError ==
    [][(/\ chatEvent'.ev = "end"
        /\ calls[chatEvent'.call].deltas = <<>>
        /\ ~calls[chatEvent'.call].failed) =>
          LET id == calls[chatEvent'.call].streamingMessageId
          IN  /\ WithId(messages, id) # {}
              /\ WithId(messages', id) = {}
              /\ messages' = SelectSeq(messages, LAMBDA m : m.id # id)
              /\ ~isLoading'
      ]_vars

\* A stream of two chunks without text and without error has ended.
C24_Witness ==
    /\ chatEvent = [ev |-> "end", call |-> 1]
    /\ calls[1].reads = 2
    /\ Len(messages) = 2
    /\ ~isLoading

\* C25: the message list grows only by appending at the end; a message in the
\* list keeps its id, role and position; only the content of the streaming
\* message of the request in flight is rewritten; the only message removed is
\* that request's placeholder while its content is empty.
C25_AppendOnly ==
    [][\/ messages' = messages
       \/ /\ Len(messages') = Len(messages) + 1
          /\ SubSeq(messages', 1, Len(messages)) = messages
          /\ WithId(messages, messages'[Len(messages')].id) = {}
       \/ /\ Len(messages') = Len(messages)
          /\ \A k \in 1..Len(messages) :
                messages'[k] # messages[k] =>
                   /\ messages'[k].id = messages[k].id
                   /\ messages'[k].role = messages[k].role
                   /\ \E i \in 1..Len(calls) :
                         /\ calls[i].pc = "reading"
                         /\ calls[i].streamingMessageId = messages[k].id
       \/ /\ Len(messages') = Len(messages) - 1
          /\ messages' = SubSeq(messages, 1, Len(messages) - 1)
          /\ messages[Len(messages)].content = <<>>
          /\ \E i \in 1..Len(calls) :
                /\ calls[i].pc = "reading"
                /\ calls[i].streamingMessageId = messages[Len(messages)].id
      ]_vars

\* The second request's placeholder was removed; the first request's answer
\* kept its place.
C25_Witness ==
    /\ chatEvent = [ev |-> "end", call |-> 2]
    /\ Len(messages) = 4
    /\ messages[3].role = "assistant" /\ messages[3].content = <<"a", "b">>
    /\ messages[4].role = "user"

\* C27: the content of the assistant message does not depend on how the
\* relay's bytes are split into chunks: once the lines sent are delivered
\* completely, every text_delta sent has been applied exactly once.
C27_EveryDeltaAppliedOnce ==
    \A i \in 1..Len(calls) :
        (calls[i].pc = "reading" /\ ~calls[i].failed /\ ~calls[i].cut) =>
            \A k \in WithId(messages, calls[i].streamingMessageId) :
                messages[k].content = Flatten(calls[i].sent)

\* C31: the tool indicator is non-empty only while a request is in flight,
\* and every request whose fetch and stream reads resolve or reject leaves
\* the client with isLoading = false and an empty indicator, so that a
\* submission of non-blank input is accepted again.
C31_RequestCompletes ==
    /\ [](currentTool # Null => (isLoading /\ InFlightCalls # {}))
    /\ [](InFlightCalls = {} => ~isLoading)
    /\ isLoading ~> (/\ ~isLoading
                     /\ currentTool = Null
                     /\ ~submitBlocked(<<"hi">>, isLoading))

\* A read failed after at least one chunk had arrived; the catch block has
\* appended its message and the client is idle again.
C31_Witness ==
    /\ chatEvent.ev = "readError"
    /\ calls[chatEvent.call].reads >= 1
    /\ ~isLoading
    /\ currentTool = Null
    /\ InFlightCalls = {}
    /\ Last(messages).content = CatchErrorText

\* C32: whenever no request is in flight (isLoading = false), no message in
\* the chat list has empty content, on every completion path.
C32_NoEmptyMessageWhenIdle ==
    ~isLoading => \A k \in 1..Len(messages) : messages[k].content # <<>>

====
